---- MODULE Spec2Model ----
(***************************************************************************)
(* Model of install.py / install_util.py: the installation pipeline as a   *)
(* state machine over the config file, the in-memory config, the device    *)
(* nodes present on the host and the trace of external commands and file   *)
(* writes.                                                                  *)
(*                                                                         *)
(* Strings that the code builds with str.format are modelled as sequences  *)
(* of pieces: a command line is its argv (the result of cmd.split(' ')),   *)
(* a message is the sequence of its literal pieces and formatted values.   *)
(***************************************************************************)
EXTENDS Integers, Sequences, FiniteSets, TLC

\* ---------------------------------------------------------------- bounds
\* at most this many keys are absent from the Install.Config section
MaxMissing == 1
\* at most this many answers are typed at the disk prompt
MaxPrompts == 2
\* at most this many characters in the file given to replace_in_file
MaxFileLen == 3

\* ------------------------------------------------------------- constants
CONF_FILE == "config.txt"
CONFIG_HEADERS == {"Pacman.Pkgs", "Install.Config"}
CONFIG_FILE_SETTINGS ==
    {"mount_path", "efi_size", "swap_size", "root_size", "luks_name",
     "volume_group", "hostname", "sudo_user", "tz.region", "tz.city",
     "locale", "language", "enable_services"}
CONFIG_RUNTIME_SETTINGS ==
    {"install_disk", "partitions.phys.efi", "partitions.phys.luks",
     "partitions.lvm.swap", "partitions.lvm.root", "partitions.lvm.home"}
NAME_INDEX == 0
SIZE_INDEX == 3
TYPE_INDEX == 5
SFDISK_PART == <<", ", "{}", ", U\n,,">>
YAY_REPO == "https://aur.archlinux.org/yay.git"
CHROOT == "arch-chroot"

\* the order of the calls in Installer.full_install
FULL_INSTALL ==
    <<"select_disk", "partition_disk_phys", "encrypt_luks_partition",
      "create_lvm_partitions", "format_partitions", "mount_partitions",
      "pacstrap", "conf_fstab", "conf_tz", "conf_locale", "conf_network",
      "conf_users", "install_grub", "enable_services", "install_yay",
      "install_yay_pkgs">>

\* ------------------------------------------------------------ str.format
\* template.format(*args): every "{}" piece is replaced by the next argument
RECURSIVE Format(_, _)
Format(template, args) ==
    IF template = <<>> THEN <<>>
    ELSE IF Head(template) = "{}" /\ args # <<>>
         THEN <<Head(args)>> \o Format(Tail(template), Tail(args))
         ELSE <<Head(template)>> \o Format(Tail(template), args)

\* a piece sequence mentions the value v
Contains(msg, v) == \E i \in 1..Len(msg) : msg[i] = v

\* " ".join(words) followed by the split(' ') of execute: an empty list
\* joins to "" and leaves one empty argument behind
JoinSplit(words) == IF words = <<>> THEN <<"">> ELSE words

\* str.split(): the whitespace separated words, empty ones dropped
Split(words) == SelectSeq(words, LAMBDA w : w # "")

\* ------------------------------------------------- the config file on disk
\* keys a stage reads from the Install.Config section without the loader
\* having checked them (install_grub reads initram_hooks)
InstallKeys == CONFIG_FILE_SETTINGS \cup {"initram_hooks"}
SectionNames == CONFIG_HEADERS \cup {"Yay.Pkgs"}

LuksNames == {"cryptlvm", ""}
ServiceLists == {<<>>, <<"NetworkManager", "sshd">>}

\* the value a sample config file gives to a settings key
SettingValue(k, luks, services) ==
    CASE k = "mount_path"      -> "/mnt"
      [] k = "efi_size"        -> "512M"
      [] k = "swap_size"       -> "16G"
      [] k = "root_size"       -> "128G"
      [] k = "luks_name"       -> luks
      [] k = "volume_group"    -> "vg0"
      [] k = "hostname"        -> "archbox"
      [] k = "sudo_user"       -> "tony"
      [] k = "tz.region"       -> "Europe"
      [] k = "tz.city"         -> "London"
      [] k = "locale"          -> "en_GB.UTF-8 UTF-8"
      [] k = "language"        -> "en_GB.UTF-8"
      [] k = "enable_services" -> services
      [] k = "initram_hooks"   -> "HOOKS=(base udev encrypt lvm2 filesystems)"

\* the Install.Config sections the model draws from: any set of keys that
\* lacks at most MaxMissing of the keys the program reads
InstallSections ==
    { [k \in ks |-> SettingValue(k, luks, services)] :
        ks \in { s \in SUBSET InstallKeys :
                    Cardinality(InstallKeys \ s) <= MaxMissing },
        luks \in LuksNames, services \in ServiceLists }

SectionContent(name, install) ==
    CASE name = "Pacman.Pkgs"    -> <<"base", "linux">>
      [] name = "Yay.Pkgs"       -> <<"yay-pkg">>
      [] name = "Install.Config" -> install

\* config.txt: absent, or a well-formed file with some of the sections
ConfigFiles ==
    { [exists |-> FALSE, sections |-> <<>>] } \cup
    { [exists |-> TRUE,
       sections |-> [n \in names |-> SectionContent(n, install)]] :
        names \in SUBSET SectionNames, install \in InstallSections }

\* ------------------------------------------------------------------ state
VARIABLES
    pc,          \* position of main: [stage, step]
    cfgFile,     \* config.txt as found on disk
    config,      \* Installer.config (the Install.Config section proxy)
    pacman_pkgs, \* Installer.pacman_pkgs
    yay_pkgs,    \* Installer.yay_pkgs
    exists,      \* paths for which os.path.exists is true
    trace,       \* external commands issued and files written, in order
    rc,          \* returncode of the last subprocess
    firstFail,   \* index in trace of the first non-zero exit, 0 if none
    errlog,      \* lines logged by the except clause of main
    raised,      \* name of the function whose exception reached main
    disks,       \* select_disk's list of (name, size) of the rows of type disk
    prompts,     \* answers typed at the disk prompt so far
    has_net,     \* what has_network() returned, "unknown" before the call
    mounted,     \* mount points on which a mount command succeeded
    install_disk,\* select_disk's local install_disk, the last answer typed
    file,        \* replace_in_file: the characters of the file on disk
    lines,       \* replace_in_file: the list returned by readlines()
    call         \* replace_in_file: the arguments and the file as it was

fileVars == <<file, lines, call>>

vars == <<pc, cfgFile, config, pacman_pkgs, yay_pkgs, exists, trace, rc,
          firstFail, errlog, raised, disks, prompts, has_net, mounted,
          install_disk, file, lines, call>>

At(stage, step) == pc.stage = stage /\ pc.step = step
Goto(stage, step) == pc' = [stage |-> stage, step |-> step]

StageIndex(stage) == CHOOSE i \in 1..Len(FULL_INSTALL) : FULL_INSTALL[i] = stage

\* the position after the last statement of a stage of full_install
AfterStage(stage) ==
    IF StageIndex(stage) = Len(FULL_INSTALL)
    THEN [stage |-> "done", step |-> 0]
    ELSE [stage |-> FULL_INSTALL[StageIndex(stage) + 1], step |-> 0]

NoKeys == [k \in {} |-> ""]

Init ==
    /\ pc = [stage |-> "main", step |-> 0]
    /\ cfgFile \in ConfigFiles
    /\ config = NoKeys
    /\ pacman_pkgs = <<>>
    /\ yay_pkgs = <<>>
    /\ exists = {"/dev/sda", "/dev/nvme0n1", "/mnt"}
    /\ trace = <<>>
    /\ rc = 0
    /\ firstFail = 0
    /\ errlog = <<>>
    /\ raised = ""
    /\ disks = <<>>
    /\ prompts = 0
    /\ has_net = "unknown"
    /\ mounted = {}
    /\ install_disk = ""
    /\ file = <<>>
    /\ lines = <<>>
    /\ call = <<>>

\* --------------------------------------------------- exception propagation
\* An exception leaving Installer(...) or a stage of full_install: re-raised
\* by full_install, caught by main, logged, and main returns.
\* a handler that logs the exception and runs the function again
Propagate_retry(fn, msg) ==
    /\ pc' = [stage |-> fn, step |-> 0]
    /\ errlog' = Append(errlog, <<"[!] ">> \o msg)
    /\ raised' = fn

Propagate(fn, msg) ==
    /\ pc' = [stage |-> "failed", step |-> 0]
    /\ errlog' = Append(errlog, <<"[!] ">> \o msg)   \* "[!] {}".format(e)
    /\ raised' = fn

\* an exception raised before the statement had any effect
Raise(fn, msg) ==
    /\ Propagate(fn, msg)
    /\ UNCHANGED <<has_net, fileVars, mounted, install_disk, cfgFile, config, pacman_pkgs, yay_pkgs, exists, trace, rc,
                   firstFail, disks, prompts>>

\* ------------------------------------------------------------------- main
\* has_network() is true or false as the host's connection decides; on
\* false main calls exit()
\* a main that goes on without a connection
main_no_exit ==
    /\ At("main", 0)
    /\ \E up \in BOOLEAN :
         /\ has_net' = IF up THEN "up" ELSE "down"
         /\ Goto("__init__", 0)
    /\ UNCHANGED <<fileVars, mounted, install_disk, cfgFile, config, pacman_pkgs,
                   yay_pkgs, exists, trace, rc,
                   firstFail, errlog, raised, disks, prompts>>

main ==
    /\ At("main", 0)
    /\ \E up \in BOOLEAN :
         /\ has_net' = IF up THEN "up" ELSE "down"
         /\ IF up THEN Goto("__init__", 0) ELSE Goto("exited", 0)
    /\ UNCHANGED <<fileVars, mounted, install_disk, cfgFile, config, pacman_pkgs,
                   yay_pkgs, exists, trace, rc,
                   firstFail, errlog, raised, disks, prompts>>

\* ------------------------------------------------------ Installer.__init__
MissingHeaders == { h \in CONFIG_HEADERS : h \notin DOMAIN cfgFile.sections }
\* a loader whose validated set forgot one key
MissingSettings_forgot ==
    { k \in CONFIG_FILE_SETTINGS \ {"enable_services"} :
        k \notin DOMAIN cfgFile.sections["Install.Config"] }
MissingSettings ==
    { k \in CONFIG_FILE_SETTINGS : k \notin DOMAIN cfgFile.sections["Install.Config"] }

\* str(KeyError(k)) is repr(k)
KeyErrorMsg(k) == <<"'", k, "'">>

Installer_init ==
    /\ At("__init__", 0)
    /\ IF ~cfgFile.exists
       THEN Raise("__init__", Format(<<"{}", " does not exist">>, <<CONF_FILE>>))
       ELSE IF MissingHeaders # {}
       \* CONFIG_HEADERS is a set: the first missing header met is any of them
       THEN \E header \in MissingHeaders :
              Raise("__init__", Format(<<"Header ", "{}", " not found in config file">>,
                                       <<header>>))
       ELSE IF "Yay.Pkgs" \notin DOMAIN cfgFile.sections
       THEN Raise("__init__", KeyErrorMsg("Yay.Pkgs"))
       ELSE IF MissingSettings # {}
       THEN \E key \in MissingSettings :
              Raise("__init__",
                    Format(<<"Key ", "{}", " missing from Install.Config section of config">>,
                           <<key>>))
       ELSE /\ pacman_pkgs' = cfgFile.sections["Pacman.Pkgs"]
            /\ yay_pkgs' = cfgFile.sections["Yay.Pkgs"]
            /\ config' = [k \in DOMAIN cfgFile.sections["Install.Config"]
                               \cup CONFIG_RUNTIME_SETTINGS |->
                            IF k \in CONFIG_RUNTIME_SETTINGS THEN ""
                            ELSE cfgFile.sections["Install.Config"][k]]
            /\ Goto(FULL_INSTALL[1], 0)
            /\ UNCHANGED <<has_net, fileVars, mounted, install_disk, cfgFile, exists, trace, rc, firstFail, errlog,
                           raised, disks, prompts>>


\* ---------------------------------------------------------------- execute
\* what a stage asks of execute, together with the device nodes the tool
\* adds or removes when it succeeds
Exec(cmd, stdin, outfile, chroot_dir, interactive, creates, removes) ==
    [kind |-> "exec", cmd |-> cmd, stdin |-> stdin, outfile |-> outfile,
     chroot_dir |-> chroot_dir, interactive |-> interactive,
     creates |-> creates, removes |-> removes, path |-> outfile]
Write(string, file_path) ==
    [kind |-> "write", cmd |-> <<>>, stdin |-> string, outfile |-> "",
     chroot_dir |-> "", interactive |-> FALSE, creates |-> {}, removes |-> {},
     path |-> file_path]
Replace(match_line, string, file_path) ==
    [kind |-> "replace", cmd |-> <<match_line>>, stdin |-> string, outfile |-> "",
     chroot_dir |-> "", interactive |-> FALSE, creates |-> {}, removes |-> {},
     path |-> file_path]

\* the argv execute hands to subprocess.run
Argv(op) ==
    IF op.chroot_dir # "" THEN <<CHROOT, op.chroot_dir>> \o op.cmd ELSE op.cmd

\* entries of the trace
\* an entry of the trace with the stage that made it
StageEvent(fn, ev) ==
    [kind |-> ev.kind, argv |-> ev.argv, input |-> ev.input, path |-> ev.path,
     stage |-> fn]
ExecEvent(op) ==
    [kind |-> "exec", argv |-> Argv(op), input |-> op.stdin, path |-> op.outfile]
FileEvent(op) ==
    [kind |-> op.kind, argv |-> op.cmd, input |-> op.stdin, path |-> op.path]

OSErrorMsg(path) == <<"[Errno 2] No such file or directory: ", path>>

\* subprocess.run either cannot start the program (OSError), or the program
\* runs and exits with zero or non-zero status; the status is not examined.
\* With outfile set, the captured output is then written with write_file,
\* whose open() can fail.
Outcomes == {"ok", "nonzero", "oserror"}

Ran(fn, op, next, outcome) ==
    /\ outcome \in {"ok", "nonzero"}
    /\ rc' = IF outcome = "ok" THEN 0 ELSE 1
    /\ firstFail' = IF outcome = "nonzero" /\ firstFail = 0
                    THEN Len(trace) + 1 ELSE firstFail
    /\ exists' = IF outcome = "ok"
                 THEN (exists \ op.removes) \cup op.creates ELSE exists
    \* mount <device> <dir> succeeds only on a directory that exists
    /\ (outcome = "ok" /\ op.cmd[1] = "mount") => op.cmd[3] \in exists
    /\ mounted' = IF outcome = "ok" /\ op.cmd[1] = "mount"
                  THEN mounted \cup {op.cmd[3]} ELSE mounted
    /\ IF op.outfile = ""
       THEN /\ trace' = Append(trace, StageEvent(fn, ExecEvent(op)))
            /\ pc' = next
            /\ UNCHANGED <<errlog, raised>>
       ELSE \E opened \in BOOLEAN :
              IF opened
              THEN /\ trace' = trace \o
                        <<StageEvent(fn, ExecEvent(op)),
                          StageEvent(fn, FileEvent(Write(<<"stdout">>, op.outfile)))>>
                   /\ pc' = next
                   /\ UNCHANGED <<errlog, raised>>
              ELSE /\ trace' = Append(trace, StageEvent(fn, ExecEvent(op)))
                   /\ Propagate(fn, OSErrorMsg(op.outfile))
    /\ UNCHANGED <<has_net, fileVars, install_disk, cfgFile, config,
                   pacman_pkgs, yay_pkgs>>

\* an execute that raises on a non-zero exit status (check=True)
execute_checked(fn, op, next, outcome) ==
    CASE outcome = "oserror" -> Raise(fn, OSErrorMsg(Argv(op)[1]))
      [] outcome = "nonzero" ->
            /\ trace' = Append(trace, StageEvent(fn, ExecEvent(op)))
            /\ rc' = 1
            /\ firstFail' = IF firstFail = 0 THEN Len(trace) + 1 ELSE firstFail
            /\ Propagate(fn, <<"Command returned non-zero exit status 1">>)
            /\ UNCHANGED <<has_net, fileVars, mounted, install_disk, cfgFile, config, pacman_pkgs, yay_pkgs,
                           exists, disks, prompts>>
      [] OTHER -> Ran(fn, op, next, outcome) /\ UNCHANGED <<disks, prompts>>

execute(fn, op, next, outcome) ==
    IF outcome = "oserror"
    THEN Raise(fn, OSErrorMsg(Argv(op)[1]))
    ELSE Ran(fn, op, next, outcome) /\ UNCHANGED <<disks, prompts>>

\* write_file and replace_in_file: open() raises when the file cannot be
\* opened, otherwise the file is written
file_op(fn, op, next) ==
    \E opened \in BOOLEAN :
      IF opened
      THEN /\ trace' = Append(trace, StageEvent(fn, FileEvent(op)))
           /\ pc' = next
           /\ UNCHANGED <<has_net, fileVars, mounted, install_disk, cfgFile, config, pacman_pkgs, yay_pkgs, exists, rc,
                          firstFail, errlog, raised, disks, prompts>>
      ELSE Raise(fn, OSErrorMsg(op.path))

\* self.config[k] = v for every k of the mapping upd
Assign(upd) ==
    [kind |-> "set", cmd |-> <<>>, stdin |-> upd, outfile |-> "",
     chroot_dir |-> "", interactive |-> FALSE, creates |-> {}, removes |-> {},
     path |-> ""]
\* an assignment that blanks the runtime fields it is not given
assign_resets(upd, next) ==
    /\ config' = [k \in DOMAIN config \cup DOMAIN upd |->
                    IF k \in DOMAIN upd THEN upd[k]
                    ELSE IF k \in CONFIG_RUNTIME_SETTINGS THEN ""
                    ELSE config[k]]
    /\ pc' = next
    /\ UNCHANGED <<has_net, fileVars, mounted, install_disk, cfgFile,
                   pacman_pkgs, yay_pkgs, exists, trace, rc, firstFail, errlog,
                   raised, disks, prompts>>

assign(upd, next) ==
    /\ config' = [k \in DOMAIN config \cup DOMAIN upd |->
                    IF k \in DOMAIN upd THEN upd[k] ELSE config[k]]
    /\ pc' = next
    /\ UNCHANGED <<has_net, fileVars, mounted, install_disk, cfgFile, pacman_pkgs, yay_pkgs, exists, trace, rc,
                   firstFail, errlog, raised, disks, prompts>>

\* ------------------------------------------------------ stages in general
\* keys of self.config a stage reads
StageReads(fn) ==
    CASE fn = "select_disk"            -> {}
      [] fn = "partition_disk_phys"    -> {"install_disk", "efi_size"}
      [] fn = "encrypt_luks_partition" -> {"partitions.phys.luks", "luks_name"}
      [] fn = "create_lvm_partitions"  ->
            {"swap_size", "root_size", "volume_group", "luks_name"}
      [] fn = "format_partitions"      ->
            {"partitions.phys.efi", "partitions.lvm.root", "partitions.lvm.home",
             "partitions.lvm.swap"}
      [] fn = "mount_partitions"       ->
            {"mount_path", "partitions.phys.efi", "partitions.lvm.root",
             "partitions.lvm.home", "partitions.lvm.swap"}
      [] fn = "pacstrap"               -> {"mount_path"}
      [] fn = "conf_fstab"             -> {"mount_path"}
      [] fn = "conf_tz"                -> {"mount_path", "tz.region", "tz.city"}
      [] fn = "conf_locale"            -> {"mount_path", "locale", "language"}
      [] fn = "conf_network"           -> {"mount_path", "hostname"}
      [] fn = "conf_users"             -> {"mount_path", "sudo_user"}
      [] fn = "install_grub"           ->
            {"mount_path", "luks_name", "partitions.phys.luks", "initram_hooks"}
      [] fn = "enable_services"        -> {"mount_path", "enable_services"}
      [] fn = "install_yay"            -> {"mount_path", "sudo_user"}
      [] fn = "install_yay_pkgs"       -> {"mount_path", "sudo_user"}

\* the statement of a stage at position step (1 is the first)
Statement(fn, ops, outcome) ==
    /\ pc.stage = fn
    /\ pc.step >= 1
    /\ pc.step <= Len(ops)
    /\ LET op == ops[pc.step]
           next == IF pc.step = Len(ops) THEN AfterStage(fn)
                   ELSE [stage |-> fn, step |-> pc.step + 1]
       IN  CASE op.kind = "exec" -> execute(fn, op, next, outcome)
             [] op.kind = "set"  -> outcome = "ok" /\ assign(op.stdin, next)
             [] OTHER            -> outcome = "ok" /\ file_op(fn, op, next)

\* entry of a stage: the reads of self.config (KeyError on an absent key)
\* and the precondition checks; pre is the message of the exception the
\* checks raise, <<>> when they pass
Enter(fn, pre, ops) ==
    /\ At(fn, 0)
    /\ IF StageReads(fn) \ DOMAIN config # {}
       THEN \E k \in StageReads(fn) \ DOMAIN config : Raise(fn, KeyErrorMsg(k))
       ELSE IF pre # <<>>
       THEN Raise(fn, pre)
       ELSE /\ pc' = IF ops = <<>> THEN AfterStage(fn)
                     ELSE [stage |-> fn, step |-> 1]
            /\ UNCHANGED <<has_net, fileVars, mounted, install_disk, cfgFile, config, pacman_pkgs, yay_pkgs, exists,
                           trace, rc, firstFail, errlog, raised, disks, prompts>>

Stage(fn, pre, ops) ==
    \/ Enter(fn, pre, ops)
    \/ \E outcome \in Outcomes : Statement(fn, ops, outcome)

\* -------------------------------------------------------- the host's /dev
\* the kernel's name of partition n of a disk: a "p" is inserted when the
\* disk name ends in a digit
PartitionNode(disk, n) ==
    IF disk = "/dev/nvme0n1" THEN disk \o "p" \o n ELSE disk \o n
PartitionNodes(disk) == {PartitionNode(disk, "1"), PartitionNode(disk, "2")}

\* what lsblk -p can print: the header and one row per block device
LsblkHeader == <<"NAME", "MAJ:MIN", "RM", "SIZE", "RO", "TYPE", "MOUNTPOINTS">>
LsblkRow(name, size, type) == <<name, "8:0", "0", size, "0", type>>
LsblkOutputs ==
    { <<LsblkHeader, LsblkRow("/dev/loop0", "700M", "loop"),
        LsblkRow("/dev/sda", "500G", "disk"),
        LsblkRow("/dev/nvme0n1", "1T", "disk")>>,
      <<LsblkHeader, LsblkRow("/dev/loop0", "700M", "loop"),
        LsblkRow("/dev/nvme0n1", "1T", "disk")>> }

\* what the user can type at the prompt
Inputs == {"/dev/sda", "/dev/nvme0n1", "sda", ""}

\* the paths whose existence a stage checks on entry
StageChecks(fn) ==
    CASE fn = "partition_disk_phys"    -> {config["install_disk"]}
      [] fn = "encrypt_luks_partition" -> {config["partitions.phys.luks"]}
      [] fn = "create_lvm_partitions"  -> {"/dev/mapper/" \o config["luks_name"]}
      [] fn \in {"format_partitions", "mount_partitions"} ->
            {config["partitions.phys.efi"], config["partitions.lvm.root"],
             config["partitions.lvm.home"], config["partitions.lvm.swap"]}
      [] OTHER -> {}

\* A device node disappears (unplugged disk, closed container, removed
\* volume).  The program looks at the file system only in the checks at the
\* entry of a stage, so a removal at any earlier moment is seen as a removal
\* just before that entry.
DeviceRemoved ==
    /\ pc.step = 0
    /\ pc.stage \in {FULL_INSTALL[i] : i \in 1..Len(FULL_INSTALL)}
    /\ \E p \in exists \cap StageChecks(pc.stage) : exists' = exists \ {p}
    /\ UNCHANGED <<has_net, fileVars, mounted, install_disk, pc, cfgFile, config, pacman_pkgs, yay_pkgs, trace, rc,
                   firstFail, errlog, raised, disks, prompts>>

\* ------------------------------------------------------------ select_disk
\* the (name, size) tuples of the rows whose type column is "disk"
RECURSIVE ParseDisks(_)
ParseDisks(rows) ==
    IF rows = <<>> THEN <<>>
    ELSE LET line == Head(rows)
         IN  (IF line[TYPE_INDEX + 1] = "disk"
              THEN << <<line[NAME_INDEX + 1], line[SIZE_INDEX + 1]>> >>
              ELSE <<>>) \o ParseDisks(Tail(rows))

\* a validity test that accepts the bare device name as well
Valid_basename(answer) ==
    \E i \in 1..Len(disks) :
        answer = disks[i][1] \/ "/dev/" \o answer = disks[i][1]

\* a validity test that lets any answer through when nothing is enumerated
Valid_or_none(answer) ==
    disks = <<>> \/ \E i \in 1..Len(disks) : answer = disks[i][1]

\* the for loop over disks: the answer equals the name of an enumerated disk
Valid(answer) == \E i \in 1..Len(disks) : answer = disks[i][1]

select_disk ==
    \/ /\ At("select_disk", 0)
       /\ LET op == Exec(<<"lsblk", "-p">>, <<>>, "", "", FALSE, {}, {})
              next == [stage |-> "select_disk", step |-> 1]
          IN  \E outcome \in Outcomes :
                IF outcome = "oserror"
                THEN execute("select_disk", op, next, outcome)
                ELSE /\ Ran("select_disk", op, next, outcome)
                     /\ \E stdout \in (IF outcome = "ok" THEN LsblkOutputs
                                                        ELSE {<<>>}) :
                          disks' = ParseDisks(stdout)
                     /\ UNCHANGED prompts
    \/ /\ At("select_disk", 1)
       /\ prompts < MaxPrompts
       /\ prompts' = prompts + 1
       /\ \E answer \in Inputs :
            /\ install_disk' = answer
            /\ IF Valid(answer)
               THEN /\ config' = [config EXCEPT
                                    !["install_disk"] = answer,
                                    !["partitions.phys.efi"] = answer \o "p1",
                                    !["partitions.phys.luks"] = answer \o "p2"]
                    /\ pc' = AfterStage("select_disk")
               ELSE UNCHANGED <<pc, config>>
       /\ UNCHANGED <<has_net, fileVars, mounted, cfgFile, pacman_pkgs, yay_pkgs, exists, trace, rc,
                      firstFail, errlog, raised, disks>>

\* ---------------------------------------------------- partition_disk_phys
\* a stage that does not look for the disk
partition_disk_phys_pre_skipped == <<>>

\* the check on entry: the message of the exception, <<>> when it passes
partition_disk_phys_pre ==
    LET disk == config["install_disk"]
    IN  IF disk \notin exists
        THEN Format(<<"Disk not found - ", "{}">>, <<disk>>) ELSE <<>>

partition_disk_phys ==
    Stage("partition_disk_phys", partition_disk_phys_pre,
          LET disk == config["install_disk"]
          IN  << Exec(<<"sfdisk", "--delete", disk>>, <<>>, "", "", FALSE,
                      {}, PartitionNodes(disk)),
                 Exec(<<"sfdisk", disk>>,
                      Format(SFDISK_PART, <<config["efi_size"]>>), "", "", FALSE,
                      PartitionNodes(disk), {}) >>)

\* ------------------------------------------------- encrypt_luks_partition
encrypt_luks_partition_pre ==
    LET luks_partition == config["partitions.phys.luks"]
        luks_name == config["luks_name"]
    IN  IF luks_partition \notin exists
        THEN Format(<<"Partition not found - ", "{}">>, <<luks_partition>>)
        ELSE IF luks_name = "" THEN <<"Luks name not set">> ELSE <<>>

encrypt_luks_partition ==
    Stage("encrypt_luks_partition", encrypt_luks_partition_pre,
          LET luks_partition == config["partitions.phys.luks"]
              luks_name == config["luks_name"]
          IN  << Exec(<<"cryptsetup", "luksFormat", "--type", "luks1", luks_partition>>,
                      <<>>, "", "", TRUE, {}, {}),
                 Exec(<<"cryptsetup", "open", luks_partition, luks_name>>,
                      <<>>, "", "", TRUE, {"/dev/mapper/" \o luks_name}, {}) >>)

\* -------------------------------------------------- create_lvm_partitions
\* a stage that does not look for the mapped device
create_lvm_partitions_pre_skipped == <<>>

create_lvm_partitions_pre ==
    LET luks_path == "/dev/mapper/" \o config["luks_name"]
    IN  IF luks_path \notin exists
        THEN Format(<<"{}", " does not exist">>, <<luks_path>>) ELSE <<>>

create_lvm_partitions ==
    Stage("create_lvm_partitions", create_lvm_partitions_pre,
          LET swap_size == config["swap_size"]
              root_size == config["root_size"]
              vol_grp == config["volume_group"]
              luks_path == "/dev/mapper/" \o config["luks_name"]
              lv(name) == "/dev/" \o vol_grp \o "/" \o name
          IN  << Exec(<<"pvcreate", luks_path>>, <<>>, "", "", FALSE, {}, {}),
                 Exec(<<"vgcreate", vol_grp, luks_path>>, <<>>, "", "", FALSE, {}, {}),
                 Exec(<<"lvcreate", "-L", swap_size, vol_grp, "-n", "swap">>,
                      <<>>, "", "", FALSE, {lv("swap")}, {}),
                 Exec(<<"lvcreate", "-L", root_size, vol_grp, "-n", "root">>,
                      <<>>, "", "", FALSE, {lv("root")}, {}),
                 Exec(<<"lvcreate", "-l", "100%FREE", vol_grp, "-n", "home">>,
                      <<>>, "", "", FALSE, {lv("home")}, {}),
                 Assign([k \in {"partitions.lvm.root", "partitions.lvm.home",
                                "partitions.lvm.swap"} |->
                           CASE k = "partitions.lvm.root" -> lv("root")
                             [] k = "partitions.lvm.home" -> lv("home")
                             [] k = "partitions.lvm.swap" -> lv("swap")]) >>)

\* ----------------------------------------------------- validate_file_paths
\* a validation that looks at the first path only
validate_file_paths_first(paths) ==
    IF paths # <<>> /\ paths[1] \notin exists
    THEN <<"{}", " does not exist">>
    ELSE <<>>

\* the message of the exception raised for the first path that does not
\* exist (the template is raised as it stands), <<>> when all exist
validate_file_paths(paths) ==
    IF \E i \in 1..Len(paths) : paths[i] \notin exists
    THEN <<"{}", " does not exist">>
    ELSE <<>>

\* ------------------------------------------------------ format_partitions
format_partitions ==
    Stage("format_partitions",
          validate_file_paths(<<config["partitions.phys.efi"],
                                config["partitions.lvm.root"],
                                config["partitions.lvm.home"],
                                config["partitions.lvm.swap"]>>),
          LET efi == config["partitions.phys.efi"]
              root == config["partitions.lvm.root"]
              home == config["partitions.lvm.home"]
              swap == config["partitions.lvm.swap"]
          IN  << Exec(<<"mkfs.ext4", root>>, <<>>, "", "", FALSE, {}, {}),
                 Exec(<<"mkfs.ext4", home>>, <<>>, "", "", FALSE, {}, {}),
                 Exec(<<"mkswap", swap>>, <<>>, "", "", FALSE, {}, {}),
                 Exec(<<"mkfs.fat", "-F32", efi>>, <<>>, "", "", FALSE, {}, {}) >>)

\* ------------------------------------------------------- mount_partitions
mount_partitions ==
    Stage("mount_partitions",
          validate_file_paths(<<config["partitions.phys.efi"],
                                config["partitions.lvm.root"],
                                config["partitions.lvm.home"],
                                config["partitions.lvm.swap"]>>),
          LET mnt_path == config["mount_path"]
              efi == config["partitions.phys.efi"]
              root == config["partitions.lvm.root"]
              home == config["partitions.lvm.home"]
              swap == config["partitions.lvm.swap"]
          IN  << Exec(<<"mount", root, mnt_path>>, <<>>, "", "", FALSE, {}, {}),
                 Exec(<<"mkdir", mnt_path \o "/efi">>, <<>>, "", "", FALSE,
                      {mnt_path \o "/efi"}, {}),
                 Exec(<<"mkdir", mnt_path \o "/home">>, <<>>, "", "", FALSE,
                      {mnt_path \o "/home"}, {}),
                 Exec(<<"mount", efi, mnt_path \o "/efi">>, <<>>, "", "", FALSE, {}, {}),
                 Exec(<<"mount", home, mnt_path \o "/home">>, <<>>, "", "", FALSE, {}, {}),
                 Exec(<<"swapon", swap>>, <<>>, "", "", FALSE, {}, {}) >>)

\* ----------------------------------------------------------------- pacstrap
pacstrap ==
    Stage("pacstrap", <<>>,
          << Exec(<<"pacstrap", config["mount_path"]>> \o JoinSplit(pacman_pkgs),
                  <<>>, "", "", TRUE, {}, {}) >>)

\* --------------------------------------------------------------- conf_fstab
conf_fstab ==
    Stage("conf_fstab", <<>>,
          LET mnt_path == config["mount_path"]
          IN  << Exec(<<"genfstab", "-U", mnt_path>>, <<>>,
                      mnt_path \o "/etc/fstab", "", FALSE, {}, {}) >>)

\* ------------------------------------------------------------------ conf_tz
conf_tz ==
    Stage("conf_tz", <<>>,
          LET mnt_path == config["mount_path"]
              tz_file == mnt_path \o "/usr/share/zoneinfo/" \o config["tz.region"]
                            \o "/" \o config["tz.city"]
              localtime_file == mnt_path \o "/etc/localtime"
          IN  << Exec(<<"ln", "-sf", tz_file, localtime_file>>, <<>>, "", "",
                      FALSE, {}, {}) >>)

\* -------------------------------------------------------------- conf_locale
conf_locale ==
    Stage("conf_locale", <<>>,
          LET mnt_path == config["mount_path"]
          IN  << Write(<<config["locale"]>>, mnt_path \o "/etc/locale.gen"),
                 Write(Format(<<"LANG=", "{}">>, <<config["language"]>>),
                       mnt_path \o "/etc/locale.conf"),
                 Exec(<<"locale-gen">>, <<>>, "", mnt_path, FALSE, {}, {}) >>)

\* ------------------------------------------------------------- conf_network
conf_network ==
    Stage("conf_network", <<>>,
          LET mnt_path == config["mount_path"]
              hostname == config["hostname"]
          IN  << Write(<<hostname>>, mnt_path \o "/etc/hostname"),
                 Write(Format(<<"127.0.0.1\tlocalhost\n127.0.0.1\t", "{}">>,
                              <<hostname>>),
                       mnt_path \o "/etc/hosts") >>)

\* --------------------------------------------------------------- conf_users
conf_users ==
    Stage("conf_users", <<>>,
          LET mnt_path == config["mount_path"]
              sudo_user == config["sudo_user"]
          IN  << Exec(<<"passwd", "root">>, <<>>, "", mnt_path, TRUE, {}, {}),
                 Exec(<<"useradd", "-mG", "wheel", sudo_user>>, <<>>, "",
                      mnt_path, FALSE, {}, {}),
                 Exec(<<"passwd", sudo_user>>, <<>>, "", mnt_path, FALSE, {}, {}),
                 Write(<<"root ALL=(ALL:ALL) ALL\n", "%wheel ALL=(ALL:ALL) ALL\n",
                         "@includedir /etc/sudoers.d">>,
                       mnt_path \o "/etc/sudoers") >>)

\* ------------------------------------------------------------- install_grub
\* a key that is registered before its permissions are restricted
key_ops_chmod_late(key_path, luks_partition) ==
    << Exec(<<"dd", "bs=512", "count=4", "if=/dev/random",
              "of=" \o key_path, "iflag=fullblock">>,
            <<>>, "", "", FALSE, {}, {}),
       Exec(<<"cryptsetup", "-v", "luksAddKey", luks_partition, key_path>>,
            <<>>, "", "", TRUE, {}, {}),
       Exec(<<"chmod", "000", key_path>>, <<>>, "", "", FALSE, {}, {}) >>

\* the three commands that create, protect and register the key file
key_ops(key_path, luks_partition) ==
    << Exec(<<"dd", "bs=512", "count=4", "if=/dev/random",
              "of=" \o key_path, "iflag=fullblock">>,
            <<>>, "", "", FALSE, {}, {}),
       Exec(<<"chmod", "000", key_path>>, <<>>, "", "", FALSE, {}, {}),
       Exec(<<"cryptsetup", "-v", "luksAddKey", luks_partition, key_path>>,
            <<>>, "", "", TRUE, {}, {}) >>

install_grub ==
    Stage("install_grub", <<>>,
          LET mnt_path == config["mount_path"]
              luks_name == config["luks_name"]
              luks_partition == config["partitions.phys.luks"]
              initram_hooks == config["initram_hooks"]
              key_path == mnt_path \o "/root/" \o luks_name \o ".keyfile"
              grub_file == mnt_path \o "/etc/default/grub"
          IN  key_ops(key_path, luks_partition) \o
              << Write(Format(<<"{}", "\nFILES=(/root/", "{}", ".keyfile)">>,
                              <<initram_hooks, luks_name>>),
                       mnt_path \o "/etc/mkinitcpio.conf"),
                 Exec(<<"mkinitcpio", "-P">>, <<>>, "", mnt_path, FALSE, {}, {}),
                 Exec(<<"chmod", "600", mnt_path \o "/boot/initramfs-linux*">>,
                      <<>>, "", "", FALSE, {}, {}),
                 Replace(".*GRUB_CMDLINE_LINUX=.*",
                         Format(<<"GRUB_CMDLINE_LINUX=\"cryptdevice=", "{}", ":",
                                  "{}", " cryptkey=rootfs:/root/", "{}",
                                  ".keyfile\"\n">>,
                                <<luks_partition, luks_name, luks_name>>),
                         grub_file),
                 Replace(".*GRUB_ENABLE_CRYPTODISK.*",
                         <<"GRUB_ENABLE_CRYPTODISK=y\n">>, grub_file),
                 Exec(<<"grub-install", "--target=x86_64-efi",
                        "--efi-directory=/efi", "--bootloader-id=GRUB">>,
                      <<>>, "", mnt_path, FALSE, {}, {}),
                 Exec(<<"grub-mkconfig", "-o", "/boot/grub/grub.cfg">>,
                      <<>>, "", mnt_path, FALSE, {}, {}) >>)

\* ---------------------------------------------------------- enable_services
enable_services ==
    Stage("enable_services", <<>>,
          LET mnt_path == config["mount_path"]
              services == Split(config["enable_services"])
          IN  [i \in 1..Len(services) |->
                 Exec(<<"systemctl", "enable", services[i]>>, <<>>, "",
                      mnt_path, FALSE, {}, {})])

\* -------------------------------------------------------------- install_yay
\* a su without a user name: a shell of the privileged account
Su_root(sudo_user) == <<"su">>

\* su = "su {}".format(sudo_user)
Su(sudo_user) == <<"su", sudo_user>>

install_yay ==
    Stage("install_yay", <<>>,
          LET mnt_path == config["mount_path"]
              sudo_user == config["sudo_user"]
              yay_dir == "/home/" \o sudo_user \o "/yay"
              su == Su(sudo_user)
              clone_repo == <<"git", "clone", YAY_REPO, yay_dir>>
              build_yay == <<"cd", yay_dir \o ";", "makepkg", "-si", "--noconfirm">>
          IN  << Exec(su, clone_repo, "", mnt_path, FALSE, {}, {}),
                 Exec(su, build_yay, "", mnt_path, TRUE, {}, {}) >>)

\* --------------------------------------------------------- install_yay_pkgs
install_yay_pkgs ==
    Stage("install_yay_pkgs", <<>>,
          LET mnt_path == config["mount_path"]
              sudo_user == config["sudo_user"]
              su == Su(sudo_user)
              yay_cmd == <<"yay", "-Sy", "--noconfirm">>
          IN  << Exec(su, yay_cmd, "", mnt_path, TRUE, {}, {}) >>)

Next ==
    \/ main
    \/ Installer_init
    \/ DeviceRemoved
    \/ select_disk
    \/ partition_disk_phys
    \/ encrypt_luks_partition
    \/ create_lvm_partitions
    \/ format_partitions
    \/ mount_partitions
    \/ pacstrap
    \/ conf_fstab
    \/ conf_tz
    \/ conf_locale
    \/ conf_network
    \/ conf_users
    \/ install_grub
    \/ enable_services
    \/ install_yay
    \/ install_yay_pkgs

Spec == Init /\ [][Next]_vars
\* ========================================================= replace_in_file
\* replace_in_file as a function of the file's characters, checked on its
\* own: SpecFile draws the file, the pattern and the replacement and runs
\* the function statement by statement.  "G" stands for the literal text of
\* the pattern (GRUB_CMDLINE_LINUX=), "x" for any other character.
Chars == {"G", "x", "\n", "\r"}
Contents == UNION { [1..n -> Chars] : n \in 0..MaxFileLen }
\* a pattern is a sequence of ".*" and literal characters
Patterns == { <<".*", "G", ".*">>, <<"G">> }
Replacements == { <<"R", "\n">>, <<"R">> }

\* open(file_path, "r") reads in text mode with universal newlines: "\r\n"
\* and a lone "\r" both arrive as "\n"
RECURSIVE Translate(_)
Translate(s) ==
    IF s = <<>> THEN <<>>
    ELSE IF Head(s) = "\r"
         THEN <<"\n">> \o Translate(IF Len(s) >= 2 /\ s[2] = "\n"
                                    THEN Tail(Tail(s)) ELSE Tail(s))
         ELSE <<Head(s)>> \o Translate(Tail(s))

\* file.readlines(): the lines with their line ends, the last one possibly
\* without
RECURSIVE SplitLines(_, _)
SplitLines(s, cur) ==
    IF s = <<>> THEN (IF cur = <<>> THEN <<>> ELSE <<cur>>)
    ELSE IF Head(s) = "\n"
         THEN <<Append(cur, "\n")>> \o SplitLines(Tail(s), <<>>)
         ELSE SplitLines(Tail(s), Append(cur, Head(s)))
ReadLines(s) == SplitLines(Translate(s), <<>>)

\* re.match(pattern, line): the pattern matches a prefix of the line; "."
\* matches any character but "\n"
RECURSIVE Match(_, _)
Match(pattern, line) ==
    IF pattern = <<>> THEN TRUE
    ELSE IF Head(pattern) = ".*"
         THEN \E k \in 0..Len(line) :
                /\ \A j \in 1..k : line[j] # "\n"
                /\ Match(Tail(pattern), SubSeq(line, k + 1, Len(line)))
         ELSE /\ line # <<>>
              /\ Head(line) = Head(pattern)
              /\ Match(Tail(pattern), Tail(line))

\* a loop body that adds the replacement after the matching line
Rewrite_appends(match_line, string, line) ==
    IF Match(match_line, line) THEN line \o string ELSE line

\* the body of the for loop: what is written for one line
Rewrite(match_line, string, line) ==
    IF Match(match_line, line) THEN string ELSE line

\* every variable of the pipeline, untouched by replace_in_file
pipelineVars == <<cfgFile, config, pacman_pkgs, yay_pkgs, exists, trace, rc,
                  firstFail, errlog, raised, disks, prompts, has_net, mounted,
                  install_disk>>

InitFile ==
    /\ pc = [stage |-> "replace_in_file", step |-> 0]
    /\ file \in Contents
    /\ lines = <<>>
    /\ \E match_line \in Patterns, string \in Replacements :
         call = [match_line |-> match_line, string |-> string, original |-> file]
    /\ cfgFile = [exists |-> FALSE, sections |-> <<>>]
    /\ config = NoKeys
    /\ pacman_pkgs = <<>>
    /\ yay_pkgs = <<>>
    /\ exists = {}
    /\ trace = <<>>
    /\ rc = 0
    /\ firstFail = 0
    /\ errlog = <<>>
    /\ raised = ""
    /\ disks = <<>>
    /\ prompts = 0
    /\ has_net = "unknown"
    /\ mounted = {}
    /\ install_disk = ""

\* step 0: open, readlines, close; step 1: open(file_path, "w") truncates;
\* step 2 + i: the write for line i + 1, after the last line close
replace_in_file ==
    /\ pc.stage = "replace_in_file"
    /\ \/ /\ pc.step = 0
          /\ lines' = ReadLines(file)
          /\ pc' = [pc EXCEPT !.step = 1]
          /\ UNCHANGED <<file, call>>
       \/ /\ pc.step = 1
          /\ file' = <<>>
          /\ pc' = [pc EXCEPT !.step = 2]
          /\ UNCHANGED <<lines, call>>
       \/ /\ pc.step >= 2
          /\ pc.step - 2 < Len(lines)
          /\ file' = file \o Rewrite(call.match_line, call.string,
                                     lines[pc.step - 1])
          /\ pc' = [pc EXCEPT !.step = pc.step + 1]
          /\ UNCHANGED <<lines, call>>
       \/ /\ pc.step >= 2
          /\ pc.step - 2 = Len(lines)
          /\ pc' = [stage |-> "returned", step |-> 0]
          /\ UNCHANGED <<file, lines, call>>
    /\ UNCHANGED pipelineVars

\* The function is cut short after its first statement (a write that raises,
\* a killed process).  What was written sits in a buffer until it is
\* flushed, so the file on disk holds some prefix of it.
Interrupted ==
    /\ pc.stage = "replace_in_file"
    /\ pc.step >= 1
    /\ pc' = [stage |-> "interrupted", step |-> pc.step]
    /\ IF pc.step = 1
       THEN file' = file       \* not yet reopened for writing
       ELSE \E k \in 0..Len(file) : file' = SubSeq(file, 1, k)
    /\ UNCHANGED <<lines, call>>
    /\ UNCHANGED pipelineVars

NextFile == replace_in_file \/ Interrupted

SpecFile == InitFile /\ [][NextFile]_vars

\* ================================================================== claims
Stages == {FULL_INSTALL[i] : i \in 1..Len(FULL_INSTALL)}

\* the program an entry of the trace ran ("" for a file write)
Program(ev) ==
    IF ev.kind # "exec" THEN ""
    ELSE IF ev.argv[1] = CHROOT THEN ev.argv[3] ELSE ev.argv[1]
Issued(programs) == \E i \in 1..Len(trace) : Program(trace[i]) \in programs

\* Installer(CONF_FILE) has returned or raised
Constructed == pc.stage \notin {"main", "__init__", "exited"}

\* config.txt has the three sections and lacks exactly the required key k
LacksOnly(k) ==
    /\ cfgFile.exists
    /\ DOMAIN cfgFile.sections = SectionNames
    /\ CONFIG_FILE_SETTINGS \ DOMAIN cfgFile.sections["Install.Config"] = {k}

\* C1: for every required settings key k, constructing Installer from a
\* config file that lacks only k fails with a message that names k, and no
\* external command has been issued.
C1_MissingKeyNamed ==
    \A k \in CONFIG_FILE_SETTINGS :
        (LacksOnly(k) /\ Constructed) =>
            /\ pc.stage = "failed"
            /\ raised = "__init__"
            /\ Len(errlog) = 1
            /\ Contains(errlog[1], k)
            /\ trace = <<>>

C1_Witness ==
    /\ \E k \in CONFIG_FILE_SETTINGS : LacksOnly(k)
    /\ pc.stage = "failed"
    /\ raised = "__init__"

\* sfdisk --delete has been issued
Destructive ==
    \E i \in 1..Len(trace) :
        /\ Program(trace[i]) = "sfdisk"
        /\ trace[i].argv[2] = "--delete"

\* C2: every configured key that a stage reads has been verified present
\* before the first destructive command, so that after a destructive
\* command no stage fails on a missing configured key.
C2_KeysVerifiedBeforeDestructive ==
    Destructive =>
        /\ \A fn \in Stages : StageReads(fn) \subseteq DOMAIN config
        /\ ~(pc.stage = "failed" /\ \E k \in InstallKeys :
                                      errlog[1] = <<"[!] ">> \o KeyErrorMsg(k))

\* C3: a config file that exists, has both required sections and every
\* required settings key loads, whatever other sections it has or lacks.
C3_LoadsWhenRequiredPresent ==
    ( /\ cfgFile.exists
      /\ CONFIG_HEADERS \subseteq DOMAIN cfgFile.sections
      /\ CONFIG_FILE_SETTINGS \subseteq DOMAIN cfgFile.sections["Install.Config"]
      /\ Constructed )
    => ~(pc.stage = "failed" /\ raised = "__init__")

\* some path the stage at pc checks on entry does not exist
PathMissing == \E p \in StageChecks(pc.stage) : p \notin exists

\* C4: when format_partitions or mount_partitions starts while one of the
\* four device paths does not exist, the stage raises and has issued no
\* command: the step that leaves the entry of the stage ends the run with
\* the trace as it was, and a run ended by the validation holds no
\* command of that stage.
C4_NoPartialFormatMount ==
    /\ [][ ( /\ pc.stage \in {"format_partitions", "mount_partitions"}
             /\ pc.step = 0
             /\ PathMissing
             /\ pc' # pc )
           => ( /\ pc'.stage = "failed"
                /\ raised' = pc.stage
                /\ trace' = trace ) ]_vars
    /\ [] ( ( /\ pc.stage = "failed"
              /\ errlog[1] = <<"[!] ", "{}", " does not exist">> )
            => ( /\ raised = "format_partitions" =>
                      ~Issued({"mkfs.ext4", "mkswap", "mkfs.fat"})
                 /\ raised = "mount_partitions" =>
                      ~Issued({"mount", "mkdir", "swapon"}) ) )

PathMissing_mount == \E p \in StageChecks("mount_partitions") : p \notin exists

C4_Witness ==
    /\ pc.stage = "failed"
    /\ raised = "mount_partitions"
    /\ PathMissing_mount
    /\ Issued({"mkfs.fat"})

\* C5: when the validation of format_partitions fails, the message of the
\* error contains every one of the four paths that does not exist.
C5_ErrorListsMissingPaths ==
    (pc.stage = "failed" /\ raised = "format_partitions") =>
        \A p \in StageChecks("format_partitions") :
            p \notin exists => Contains(errlog[1], p)

LvmPaths ==
    {"partitions.lvm.swap", "partitions.lvm.root", "partitions.lvm.home"}
MappedDevice == "/dev/mapper/" \o config["luks_name"]

\* C6: create_lvm_partitions that starts while /dev/mapper/<luks_name> does
\* not exist raises without issuing a command, whatever the cryptsetup
\* commands returned; as long as no LVM command has been issued the three
\* LVM path fields are empty, and they are empty when the stage raised.
C6_NoLvmWithoutMappedDevice ==
    /\ [][ ( /\ At("create_lvm_partitions", 0)
             /\ MappedDevice \notin exists
             /\ pc' # pc )
           => ( /\ pc'.stage = "failed"
                /\ raised' = "create_lvm_partitions"
                /\ trace' = trace
                /\ \A k \in LvmPaths : config'[k] = "" ) ]_vars
    /\ [] ( ( /\ Constructed
              /\ pc.stage # "failed" \/ raised # "__init__"
              /\ \/ ~Issued({"pvcreate", "vgcreate", "lvcreate"})
                 \/ raised = "create_lvm_partitions" )
            => \A k \in LvmPaths : config[k] = "" )

C6_Witness ==
    /\ pc.stage = "failed"
    /\ raised = "create_lvm_partitions"
    /\ MappedDevice \notin exists
    /\ firstFail > 0
    /\ Program(trace[firstFail]) = "cryptsetup"
    /\ ~Issued({"pvcreate", "vgcreate", "lvcreate"})

\* C7: partition_disk_phys that starts while the selected disk does not
\* exist raises before sfdisk --delete or sfdisk is issued.
C7_PartitionFailsFast ==
    /\ [][ ( /\ At("partition_disk_phys", 0)
             /\ config["install_disk"] \notin exists
             /\ pc' # pc )
           => ( /\ pc'.stage = "failed"
                /\ raised' = "partition_disk_phys"
                /\ trace' = trace ) ]_vars
    /\ [] ( (pc.stage = "failed" /\ raised = "partition_disk_phys"
                /\ errlog[1][2] = "Disk not found - ")
            => ~Issued({"sfdisk"}) )

C7_Witness ==
    /\ pc.stage = "failed"
    /\ raised = "partition_disk_phys"
    /\ errlog[1] = <<"[!] ", "Disk not found - ", config["install_disk"]>>
    /\ config["install_disk"] # ""

\* C8: when the network check fails the process ends at once: the config
\* is never loaded, no stage starts and no command is issued.
C8_NoNetworkNoInstall ==
    has_net = "down" =>
        /\ pc.stage = "exited"
        /\ config = NoKeys
        /\ trace = <<>>
        /\ errlog = <<>>

C8_Witness == has_net = "down" /\ pc.stage = "exited"

\* commands that would undo the work of a stage
CleanupPrograms ==
    {"umount", "swapoff", "lvremove", "vgremove", "pvremove", "rm", "rmdir"}
CleanedUp ==
    \E i \in 1..Len(trace) :
        \/ Program(trace[i]) \in CleanupPrograms
        \/ Program(trace[i]) = "cryptsetup" /\ trace[i].argv[2] = "close"

\* C9: an exception of a stage (or of the loader) is logged once and ends
\* the run: the position is "failed" exactly when something was logged or
\* raised, one line is logged, nothing happens afterwards (no later stage,
\* no retry) and no cleanup command is ever issued.
C9_ErrorEndsRun ==
    /\ [] ( (errlog # <<>> \/ raised # "") <=> pc.stage = "failed" )
    /\ [] ( pc.stage = "failed" => Len(errlog) = 1 )
    /\ [] ~CleanedUp
    /\ [][ pc.stage # "failed" ]_vars
    /\ [][ pc'.stage = "failed" =>
             /\ raised' = pc.stage
             /\ Len(trace') <= Len(trace) + 1 ]_vars

C9_Witness ==
    /\ pc.stage = "failed"
    /\ raised \in Stages
    /\ Issued({"sfdisk"})
    /\ Len(errlog) = 1

Services == Split(config["enable_services"])

\* a systemctl enable has just exited with a non-zero status
EnableFailed ==
    /\ pc.stage = "enable_services"
    /\ pc.step >= 1
    /\ Len(trace') = Len(trace) + 1
    /\ rc' # 0

DiskNames == {disks[i][1] : i \in 1..Len(disks)}

\* an answer has just been typed at the prompt of select_disk
Answered == At("select_disk", 1) /\ prompts' = prompts + 1

\* C11: select_disk returns exactly on an answer equal to the name of an
\* enumerated disk, and then install_disk is that answer and the EFI and
\* LUKS paths are the answer with "p1" and "p2" appended; any other answer
\* leaves the position and every config field as they were.  Once
\* select_disk has returned the three fields keep that shape.
C11_SelectDiskExactMatch ==
    /\ [][ Answered =>
             IF install_disk' \in DiskNames
             THEN /\ pc' = AfterStage("select_disk")
                  /\ config' = [config EXCEPT
                        !["install_disk"] = install_disk',
                        !["partitions.phys.efi"] = install_disk' \o "p1",
                        !["partitions.phys.luks"] = install_disk' \o "p2"]
             ELSE pc' = pc /\ config' = config ]_vars
    /\ [] ( pc.stage \in Stages \ {"select_disk"} =>
              /\ config["install_disk"] \in DiskNames
              /\ config["install_disk"] = install_disk
              /\ config["partitions.phys.efi"] = install_disk \o "p1"
              /\ config["partitions.phys.luks"] = install_disk \o "p2" )

C11_Witness ==
    /\ pc.stage = "partition_disk_phys"
    /\ prompts = 2
    /\ config["install_disk"] = "/dev/sda"
    /\ config["partitions.phys.efi"] = "/dev/sdap1"
\* the lines of a file as its characters spell them: cut after every "\n"
RECURSIVE FileLines(_, _)
FileLines(s, cur) ==
    IF s = <<>> THEN (IF cur = <<>> THEN <<>> ELSE <<cur>>)
    ELSE IF Head(s) = "\n"
         THEN <<Append(cur, "\n")>> \o FileLines(Tail(s), <<>>)
         ELSE FileLines(Tail(s), Append(cur, Head(s)))

\* the file now has as many lines as it had, each matching line is the
\* replacement and each other line is as it was
LinesReplaced ==
    LET before == FileLines(call.original, <<>>)
        after == FileLines(file, <<>>)
    IN  /\ Len(after) = Len(before)
        /\ \A i \in 1..Len(before) :
             after[i] = IF Match(call.match_line, before[i])
                        THEN call.string ELSE before[i]

\* C12 as stated: for every file, pattern and replacement, after
\* replace_in_file the file has the same number of lines in the same order,
\* matching lines replaced and the others unchanged verbatim.
C12_LinesReplacedAlways == pc.stage = "returned" => LinesReplaced

\* the replacement is one line: it ends in "\n" and has no other line end
OneLine(string) ==
    /\ string # <<>>
    /\ string[Len(string)] = "\n"
    /\ \A i \in 1..(Len(string) - 1) : string[i] \notin {"\n", "\r"}
NoCarriageReturn(s) == \A i \in 1..Len(s) : s[i] # "\r"

\* C12 as amended: the same, for a replacement that is one line ending in a
\* newline and a file without carriage returns.
C12_LinesReplacedForOneLine ==
    ( /\ pc.stage = "returned"
      /\ OneLine(call.string)
      /\ NoCarriageReturn(call.original) )
    => LinesReplaced

C12_Witness ==
    /\ pc.stage = "returned"
    /\ OneLine(call.string)
    /\ call.original = <<"x", "\n", "G">>
    /\ call.match_line = <<".*", "G", ".*">>
    /\ file = <<"x", "\n", "R", "\n">>

\* what replace_in_file writes when it runs to its end
RECURSIVE Substituted(_)
Substituted(ls) ==
    IF ls = <<>> THEN <<>>
    ELSE Rewrite(call.match_line, call.string, Head(ls)) \o Substituted(Tail(ls))

\* C13: replace_in_file writes back atomically: when it is cut short, the
\* file holds either all of its original content or all of the substituted
\* content.
C13_AtomicWriteBack ==
    pc.stage = "interrupted" =>
        \/ file = call.original
        \/ file = Substituted(ReadLines(call.original))
\* the entries of the trace made by a stage
StageTrace(fn) == SelectSeq(trace, LAMBDA ev : ev.stage = fn)

\* C14: the install command of install_yay_pkgs names every package of the
\* Yay.Pkgs section loaded at start.
C14_YayInstallsConfiguredPkgs ==
    \A i \in 1..Len(trace) :
        trace[i].stage = "install_yay_pkgs" =>
            \A j \in 1..Len(yay_pkgs) :
                \/ Contains(trace[i].input, yay_pkgs[j])
                \/ Contains(trace[i].argv, yay_pkgs[j])

\* the words that show a clone, a build or an install of the helper
HelperWords == {"git", "makepkg", "yay"}
Mentions(ev, words) ==
    \/ \E k \in 1..Len(ev.argv) : ev.argv[k] \in words
    \/ \E k \in 1..Len(ev.input) : ev.input[k] \in words

\* C15: every entry of the trace that clones, builds or installs with the
\* helper package manager (and every entry of install_yay and
\* install_yay_pkgs) is the command `su <sudo_user>` run inside the target
\* tree with the work on its input, and the useradd of conf_users for that
\* user is earlier in the trace.
C15_HelperRunsAsSudoUser ==
    \A i \in 1..Len(trace) :
        ( \/ trace[i].stage \in {"install_yay", "install_yay_pkgs"}
          \/ Mentions(trace[i], HelperWords) )
        => /\ trace[i].kind = "exec"
           /\ trace[i].argv =
                <<CHROOT, config["mount_path"], "su", config["sudo_user"]>>
           /\ Mentions([argv |-> <<>>, input |-> trace[i].input], HelperWords)
           /\ \E j \in 1..(i - 1) :
                trace[j].argv = <<CHROOT, config["mount_path"], "useradd",
                                  "-mG", "wheel", config["sudo_user"]>>

C15_Witness ==
    /\ pc.stage = "done"
    /\ Len(StageTrace("install_yay")) = 2
    /\ \E i \in 1..Len(trace) : Contains(trace[i].input, "yay")

\* C16: the stages issue their commands in the order of the pipeline, once
\* a command has exited non-zero no later stage issues a command or writes
\* a file, and pacstrap and the writes under mount_path happen only with
\* the root volume mounted at mount_path.
C16_FailureStopsLaterStages ==
    /\ \A i, j \in 1..Len(trace) :
         i < j => StageIndex(trace[i].stage) <= StageIndex(trace[j].stage)
    /\ firstFail > 0 =>
         \A i \in (firstFail + 1)..Len(trace) :
             trace[i].stage = trace[firstFail].stage
    /\ \A i \in 1..Len(trace) :
         (Program(trace[i]) = "pacstrap" \/ trace[i].kind \in {"write", "replace"})
            => config["mount_path"] \in mounted

\* C17: in mount_partitions the efi and home directories exist only with
\* root mounted at mount_path, and the EFI and home partitions are mounted
\* only on directories that exist.
C17_MountOrdering ==
    "mount_path" \in DOMAIN config =>
        \A d \in {"/efi", "/home"} :
            /\ (config["mount_path"] \o d) \in exists
                  => config["mount_path"] \in mounted
            /\ (config["mount_path"] \o d) \in mounted
                  => (config["mount_path"] \o d) \in exists

DiskPaths == {"install_disk", "partitions.phys.efi", "partitions.phys.luks"}

\* C18: the six runtime fields are empty after loading; a field that is
\* non-empty never changes again; the disk and physical paths change only
\* in select_disk and the LVM paths only in create_lvm_partitions, to
\* non-empty values, the LVM paths after the disk paths.
C18_RuntimeFieldsSetOnce ==
    /\ [] ( At("select_disk", 0) =>
              \A k \in CONFIG_RUNTIME_SETTINGS : config[k] = "" )
    /\ [][ \A k \in CONFIG_RUNTIME_SETTINGS \cap DOMAIN config :
             /\ config[k] # "" => config'[k] = config[k]
             /\ config'[k] # config[k] =>
                  /\ config'[k] # ""
                  /\ \/ k \in DiskPaths /\ pc.stage = "select_disk"
                     \/ k \in LvmPaths /\ pc.stage = "create_lvm_partitions" ]_vars
    /\ [] ( \A k \in LvmPaths \cap DOMAIN config :
              config[k] # "" => \A d \in DiskPaths : config[d] # "" )

C18_Witness ==
    /\ pc.stage = "failed"
    /\ raised = "install_grub"
    /\ \A k \in CONFIG_RUNTIME_SETTINGS : config[k] # ""

\* what an entry of the trace is: the program run, or the kind of file write
Sig(ev) == IF ev.kind = "exec" THEN Program(ev) ELSE ev.kind
GrubOrder ==
    <<"dd", "chmod", "cryptsetup", "write", "mkinitcpio", "chmod",
      "replace", "replace", "grub-install", "grub-mkconfig">>

\* C19: what install_grub has done is always a prefix of: dd of the key
\* file, chmod 000 of that same file, luksAddKey, the initramfs config and
\* mkinitcpio, chmod of the image, the two rewrites of the bootloader
\* defaults, grub-install, grub-mkconfig.  So the chmod follows the dd with
\* nothing between them and the two grub commands come last, after all the
\* others; a stage that has ended has done all ten.
C19_GrubOrder ==
    LET g == StageTrace("install_grub")
    IN  /\ Len(g) <= Len(GrubOrder)
        /\ \A i \in 1..Len(g) : Sig(g[i]) = GrubOrder[i]
        /\ Len(g) >= 2 =>
             /\ g[2].argv[2] = "000"
             /\ g[1].argv[5] = "of=" \o g[2].argv[3]
        /\ Len(g) >= 3 => g[3].argv[3] = "luksAddKey"
        /\ Len(g) >= 8 =>
             /\ g[7].argv = <<".*GRUB_CMDLINE_LINUX=.*">>
             /\ g[8].argv = <<".*GRUB_ENABLE_CRYPTODISK.*">>
        /\ pc.stage \in {"enable_services", "install_yay", "install_yay_pkgs",
                         "done"} => Len(g) = Len(GrubOrder)
        /\ \A i \in 1..Len(trace) :
             Sig(trace[i]) \in {"dd", "grub-install", "grub-mkconfig"}
                => trace[i].stage = "install_grub"

C19_Witness ==
    /\ pc.stage = "enable_services"
    /\ Len(StageTrace("install_grub")) = 10
    /\ Sig(trace[Len(trace)]) = "grub-mkconfig"

\* C20: an answer at the prompt makes select_disk return exactly when it is
\* an enumerated disk name, and select_disk is left in no other way than by
\* such an answer (or by an exception of lsblk); with nothing enumerated
\* every answer leaves the position and the config as they were, and no
\* stage after select_disk is ever reached.
C20_SelectDiskTermination ==
    /\ [][ Answered =>
             (pc'.stage # "select_disk" <=> install_disk' \in DiskNames) ]_vars
    /\ [][ (pc.stage = "select_disk" /\ pc'.stage # "select_disk") =>
             \/ Answered /\ pc' = AfterStage("select_disk")
             \/ pc.step = 0 /\ pc'.stage = "failed" ]_vars
    /\ [][ (At("select_disk", 1) /\ disks = <<>>) =>
             pc' = pc /\ config' = config ]_vars
    /\ [] ( (pc.stage \in Stages \ {"select_disk"} \/ pc.stage = "done")
              => disks # <<>> )

C20_Witness ==
    /\ At("select_disk", 1)
    /\ disks = <<>>
    /\ prompts >= 2
    /\ install_disk = "/dev/sda"
====
